---- MODULE Spec2Model ----
(***************************************************************************)
(* Model of the rule-based predictor of the Elysian trading system:        *)
(* ModelPredictor (src/ml/model_utils.py) and the RSI column computed by   *)
(* ElysianMLTrainer.add_technical_indicators (src/ml/train.py).            *)
(*                                                                         *)
(* Python floats are modelled as exact rationals extended with NaN and     *)
(* the infinities, with IEEE comparison rules (every comparison with NaN   *)
(* is false) and the builtin min/max rules (the first argument is kept     *)
(* unless the second compares strictly smaller/larger).  The one place     *)
(* where a rational cannot stand for the float is the square root of the   *)
(* rolling standard deviation: an annualized deviation is kept as the      *)
(* expression it is (the window of returns it is computed from), and so    *)
(* are the mean and the blend of such values; only the comparisons of the  *)
(* final clamp are decided numerically, on an enclosure of the value.      *)
(***************************************************************************)
EXTENDS Integers, Sequences, FiniteSets, Bags, TLC

VARIABLES
    pc,                 \* "ready": the caller is about to call; "returned": a call came back
    op,                 \* the operation that was called last
    historical_data,    \* argument of predict_price_direction / predict_volatility
    prices,             \* argument of calculate_rsi / close column given to add_technical_indicators
    data_quality_score, \* argument of get_prediction_confidence
    symbols_data,       \* argument of batch_predict
    pct_fill,           \* what Series.pct_change does with a missing close ("pad" or "none")
    ret,                \* the float a scoring operation returned
    rsi,                \* the Series calculate_rsi returned / the df['rsi'] column
    results,            \* the dict batch_predict returned
    indicators,         \* the indicator columns the call computed
    locals,             \* the local values of the call: the latest row and the amount
                        \* each rule added to the score, or the two volatilities blended
    printed,            \* the "Error in ..." lines the call printed
    raised              \* the exception the caller saw, "" if none

vars == <<pc, op, historical_data, prices, data_quality_score, symbols_data,
          pct_fill, ret, rsi, results, indicators, locals, printed, raised>>

----------------------------------------------------------------------------
(* Bounds of the model *)

\* longest bar sequence handed to an operation
MaxBars == 22
\* number of freely chosen bars at the end of a bar sequence
TailLen == 2
\* price level of the generated bar sequences
Base == 30

----------------------------------------------------------------------------
(* Python floats *)

Abs(x) == IF x < 0 THEN -x ELSE x
Sgn(x) == IF x < 0 THEN -1 ELSE IF x > 0 THEN 1 ELSE 0

RECURSIVE GCD(_, _)
GCD(a, b) == IF b = 0 THEN a ELSE GCD(b, a % b)

\* the rational n/d (d > 0) in lowest terms; whole numbers take a short cut
Num(n, d) ==
    IF d = 1 THEN [k |-> "num", n |-> n, d |-> 1]
    ELSE LET g == GCD(Abs(n), d)
         IN  [k |-> "num", n |-> n \div g, d |-> d \div g]
NaN == [k |-> "nan", n |-> 0, d |-> 1]
Inf(s) == [k |-> "inf", n |-> s, d |-> 1]
\* a close that is a str, not a number
Str == [k |-> "str", n |-> 0, d |-> 1]
\* no float returned yet
Unset == [k |-> "unset", n |-> 0, d |-> 1]

isnan(a) == a.k = "nan"

FNeg(a) ==
    CASE a.k = "num" -> Num(-a.n, a.d)
      [] a.k = "inf" -> Inf(-a.n)
      [] OTHER -> NaN

FAdd(a, b) ==
    IF a.k = "num" /\ b.k = "num" /\ a.d = 1 /\ b.d = 1
    THEN [k |-> "num", n |-> a.n + b.n, d |-> 1]
    ELSE IF isnan(a) \/ isnan(b) THEN NaN
    ELSE IF a.k = "inf" THEN (IF b.k = "inf" /\ b.n # a.n THEN NaN ELSE a)
    ELSE IF b.k = "inf" THEN b
    ELSE LET g == GCD(a.d, b.d)
         IN  Num(a.n * (b.d \div g) + b.n * (a.d \div g), (a.d \div g) * b.d)

FSub(a, b) ==
    IF a.k = "num" /\ b.k = "num" /\ a.d = 1 /\ b.d = 1
    THEN [k |-> "num", n |-> a.n - b.n, d |-> 1]
    ELSE FAdd(a, FNeg(b))

FMul(a, b) ==
    IF isnan(a) \/ isnan(b) THEN NaN
    ELSE IF a.k = "inf" \/ b.k = "inf"
         THEN (IF a.n = 0 \/ b.n = 0 THEN NaN ELSE Inf(Sgn(a.n) * Sgn(b.n)))
    ELSE LET g1 == GCD(Abs(a.n), b.d)
             g2 == GCD(Abs(b.n), a.d)
         IN  Num((a.n \div g1) * (b.n \div g2), (a.d \div g2) * (b.d \div g1))

\* float division as numpy does it: x/0 is +-inf, 0/0 is NaN, nothing is raised
FDiv(a, b) ==
    IF isnan(a) \/ isnan(b) THEN NaN
    ELSE IF a.k = "inf" THEN (IF b.k = "inf" THEN NaN
                              ELSE Inf(a.n * (IF b.n < 0 THEN -1 ELSE 1)))
    ELSE IF b.k = "inf" THEN Num(0, 1)
    ELSE IF b.n = 0 THEN (IF a.n = 0 THEN NaN ELSE Inf(Sgn(a.n)))
    ELSE FMul(a, Num(b.d * Sgn(b.n), Abs(b.n)))

FLt(a, b) ==
    /\ ~isnan(a)
    /\ ~isnan(b)
    /\ IF a.k = "inf" THEN a.n < 0 /\ ~(b.k = "inf" /\ b.n < 0)
       ELSE IF b.k = "inf" THEN b.n > 0
       ELSE a.n * b.d < b.n * a.d
FGt(a, b) == FLt(b, a)

\* the builtins min(a, b) and max(a, b)
PyMin(a, b) == IF FLt(b, a) THEN b ELSE a
PyMax(a, b) == IF FGt(b, a) THEN b ELSE a

----------------------------------------------------------------------------
(* Python values handed to the predictor *)

None == [none |-> TRUE]
PyList(s) == [list |-> s]

\* `not historical_data`
Falsy(hd) == hd = None \/ hd = PyList(<<>>)

Bar(c) == [close |-> c]
\* a bar that carries no 'close' field
BarNoClose == [volume |-> Num(1000, 1)]

----------------------------------------------------------------------------
(* Program constants *)

\* `len(historical_data) < 20`
MinBars == 20
\* rolling(window=5) and rolling(window=20) of the moving averages
SmaShort == 5
SmaLong == 20
\* calculate_rsi(self, prices, period=14)
RsiPeriod == 14
\* `len(df) >= 5` and df.iloc[-5]
MomentumBars == 5
\* returns.rolling(window=20)
VolWindow == 20
\* np.sqrt(252)
TradingDays == 252

Zero == Num(0, 1)
One == Num(1, 1)
Hundred == Num(100, 1)
\* the neutral prediction 0.5 and the default volatility 0.2
Neutral == Num(1, 2)
DefaultVol == Num(1, 5)

----------------------------------------------------------------------------
(* The bar sequences the operations are called with: a regular prefix      *)
(* followed by up to TailLen freely chosen bars.                            *)

Kinds == {"flat", "up", "down", "zig", "hump", "dip", "nokey", "nan"}

\* bar i of a prefix of n bars
PrefixBar(kind, i, n) ==
    CASE kind = "flat" -> Bar(Num(Base, 1))
      [] kind = "up" -> Bar(Num(Base + i, 1))
      [] kind = "down" -> Bar(Num(Base + n - i, 1))
      [] kind = "zig" -> Bar(Num(Base + (i % 2), 1))
      [] kind = "hump" -> Bar(Num(IF i <= 7 THEN Base - 20 ELSE Base + 30 - 2 * (i - 8), 1))
      [] kind = "dip" -> Bar(Num(IF i <= 7 THEN Base + 30 ELSE Base - 20 + 2 * (i - 8), 1))
      [] kind = "nan" -> Bar(NaN)
      [] OTHER -> BarNoClose

Prefix(kind, n) == [i \in 1..n |-> PrefixBar(kind, i, n)]

\* a freely chosen bar: a move of the close by d, a NaN close, a str close
Deltas == {-7, -3, -1, 2, 3, 7}
TailSyms == [t : {"move"}, d : Deltas] \cup [t : {"nan", "str"}, d : {0}]

RECURSIVE LastClose(_)
LastClose(bars) ==
    IF bars = <<>> THEN Base
    ELSE LET b == bars[Len(bars)]
         IN  IF "close" \in DOMAIN b /\ b.close.k = "num" THEN b.close.n
             ELSE LastClose(SubSeq(bars, 1, Len(bars) - 1))

TailBar(bars, sym) ==
    CASE sym.t = "move" -> Bar(Num(LastClose(bars) + sym.d, 1))
      [] sym.t = "nan" -> Bar(NaN)
      [] OTHER -> Bar(Str)

RECURSIVE Extend(_, _)
Extend(bars, tail) ==
    IF tail = <<>> THEN bars
    ELSE Extend(Append(bars, TailBar(bars, Head(tail))), Tail(tail))

Tails == UNION {[1..l -> TailSyms] : l \in 0..TailLen}
PrefixLens == {0} \cup ((MinBars - 1)..MaxBars)

BarSequences ==
    {Extend(Prefix(kind, n), tail) :
        kind \in Kinds, n \in PrefixLens, tail \in Tails}

\* the end-to-end scenario: 20 bars, every close 100
FlatScenario == PyList([i \in 1..MinBars |-> Bar(Hundred)])

HistoricalData ==
    {None, FlatScenario} \cup {PyList(s) : s \in {b \in BarSequences : Len(b) <= MaxBars}}

----------------------------------------------------------------------------
(* pandas *)

\* df[name] of pd.DataFrame(bars): a bar without the field gives NaN; KeyError
\* (modelled by HasColumn) when no bar has the field
HasColumn(bars, name) == \E i \in 1..Len(bars) : name \in DOMAIN bars[i]
\* a Series as a tuple of its values
Series(f) == SubSeq(f, 1, Cardinality(DOMAIN f))

Column(bars) ==
    Series([i \in 1..Len(bars) |-> IF "close" \in DOMAIN bars[i] THEN bars[i].close ELSE NaN])
\* a str anywhere makes the column dtype object, on which diff, rolling and
\* pct_change raise
IsNumeric(s) == \A i \in 1..Len(s) : s[i].k # "str"

\* len(s) of a Series
Size(s) == Cardinality(DOMAIN s)

RECURSIVE SumRange(_, _, _)
SumRange(s, lo, hi) == IF lo > hi THEN Zero ELSE FAdd(SumRange(s, lo, hi - 1), s[hi])

\* Series.rolling(window=w).mean(): NaN until w observations, NaN when one is NaN
rolling_mean(s, w) ==
    [i \in DOMAIN s |->
        IF i < w \/ \E j \in (i - w + 1)..i : isnan(s[j]) THEN NaN
        ELSE FDiv(SumRange(s, i - w + 1, i), Num(w, 1))]

\* Series.fillna(v)
fillna(s, v) == [i \in DOMAIN s |-> IF isnan(s[i]) THEN v ELSE s[i]]

\* Series.diff()
diff(s) == Series([i \in DOMAIN s |-> IF i = 1 THEN NaN ELSE FSub(s[i], s[i - 1])])

----------------------------------------------------------------------------
(* ModelPredictor.calculate_rsi *)

\* mutant: RS is taken as loss over gain
rsi_raw_swapped(p, period) ==
    LET delta == diff(p)
        up == Series([i \in DOMAIN p |-> IF FGt(delta[i], Zero) THEN delta[i] ELSE Zero])
        down == Series([i \in DOMAIN p |-> FNeg(IF FLt(delta[i], Zero) THEN delta[i] ELSE Zero)])
        gain == rolling_mean(up, period)
        loss == rolling_mean(down, period)
        rs == [i \in DOMAIN p |-> FDiv(loss[i], gain[i])]
    IN  [i \in DOMAIN p |-> FSub(Hundred, FDiv(Hundred, FAdd(One, rs[i])))]

\* 100 - 100 / (1 + gain / loss), before fillna
rsi_raw(p, period) ==
    LET delta == diff(p)
        up == Series([i \in DOMAIN p |-> IF FGt(delta[i], Zero) THEN delta[i] ELSE Zero])
        down == Series([i \in DOMAIN p |-> FNeg(IF FLt(delta[i], Zero) THEN delta[i] ELSE Zero)])
        gain == rolling_mean(up, period)
        loss == rolling_mean(down, period)
        rs == [i \in DOMAIN p |-> FDiv(gain[i], loss[i])]
    IN  [i \in DOMAIN p |-> FSub(Hundred, FDiv(Hundred, FAdd(One, rs[i])))]

calculate_rsi(p, period) == fillna(rsi_raw(p, period), Num(50, 1))

----------------------------------------------------------------------------
(* ModelPredictor.predict_price_direction *)

\* what a try body did: the exception it raised ("" if none), the value it
\* returned, the indicator columns it computed
Return(v, ind, loc) ==
    [exc |-> "", ret |-> v, indicators |-> ind, locals |-> loc, printed |-> <<>>]
Raise(e) ==
    [exc |-> e, ret |-> Unset, indicators |-> {}, locals |-> None, printed |-> <<>>]

\* mutant: the second comparison of the chain is not strict
trend_signal_nonstrict(close, sma_5, sma_20) ==
    IF FGt(close, sma_5) /\ ~FLt(sma_5, sma_20) /\ ~isnan(sma_5) /\ ~isnan(sma_20)
    THEN Num(1, 5)
    ELSE IF FLt(close, sma_5) /\ ~FGt(sma_5, sma_20) /\ ~isnan(sma_5) /\ ~isnan(sma_20)
    THEN Num(-1, 5)
    ELSE Zero

\* the moving-average rule
trend_signal(close, sma_5, sma_20) ==
    IF FGt(close, sma_5) /\ FGt(sma_5, sma_20) THEN Num(1, 5)
    ELSE IF FLt(close, sma_5) /\ FLt(sma_5, sma_20) THEN Num(-1, 5)
    ELSE Zero

\* the RSI rule
rsi_signal(r) ==
    IF FLt(r, Num(30, 1)) THEN Num(3, 20)
    ELSE IF FGt(r, Num(70, 1)) THEN Num(-3, 20)
    ELSE Zero

\* mutant: the bar five positions before the latest one, df.iloc[-6]
momentum_base_five_back(close) == close[Size(close) - MomentumBars]

\* the bar the momentum is measured from: df.iloc[-5]
momentum_base(close) == close[Size(close) - (MomentumBars - 1)]

\* the momentum rule
momentum_signal(close) ==
    IF Size(close) >= MomentumBars
    THEN LET latest == close[Size(close)]
             momentum == FDiv(FSub(latest, momentum_base(close)), momentum_base(close))
         IN  PyMin(Num(1, 5), PyMax(Num(-1, 5), FMul(momentum, Num(2, 1))))
    ELSE Zero

\* mutant: the upper bound is forgotten
clamp_score_lower_only(score) == PyMax(Num(1, 10), score)

\* the final clamp: max(0.1, min(0.9, score))
clamp_score(score) == PyMax(Num(1, 10), PyMin(Num(9, 10), score))

\* latest = df.iloc[-1], after the indicator columns were added
latest_row(close) ==
    LET n == Size(close)
    IN  [close |-> close[n],
         sma_5 |-> rolling_mean(close, SmaShort)[n],
         sma_20 |-> rolling_mean(close, SmaLong)[n],
         rsi |-> calculate_rsi(close, RsiPeriod)[n]]

\* what each rule adds to the score
score_steps(close, latest) ==
    [trend |-> trend_signal(latest.close, latest.sma_5, latest.sma_20),
     rsi |-> rsi_signal(latest.rsi),
     momentum |-> momentum_signal(close)]

\* the additive score before the final clamp
raw_score(steps) ==
    FAdd(FAdd(FAdd(Neutral, steps.trend), steps.rsi), steps.momentum)

\* mutant: the guard is off by one
short_history_off_by_one(hd) == Falsy(hd) \/ Len(hd.list) < MinBars - 1

\* `not historical_data or len(historical_data) < 20`
short_history(hd) == Falsy(hd) \/ Len(hd.list) < MinBars

\* the body of the try statement
price_direction_body(hd) ==
    IF short_history(hd) THEN Return(Neutral, {}, None)
    ELSE IF ~HasColumn(hd.list, "close") THEN Raise("KeyError")
    ELSE IF ~IsNumeric(Column(hd.list)) THEN Raise("TypeError")
    ELSE LET close == Column(hd.list)
             latest == latest_row(close)
             steps == score_steps(close, latest)
         IN  Return(clamp_score(raw_score(steps)), {"sma_5", "sma_20", "rsi"},
                    [latest |-> latest, steps |-> steps])

\* mutant: the handler catches KeyError only
try_except_key_error(body, msg, default) ==
    IF body.exc = "KeyError"
    THEN [exc |-> "", ret |-> default, indicators |-> body.indicators,
          locals |-> body.locals, printed |-> <<msg>>]
    ELSE body

\* try: ... except Exception as e: print(...); return default
try_except(body, msg, default) ==
    IF body.exc # ""
    THEN [exc |-> "", ret |-> default, indicators |-> body.indicators,
          locals |-> body.locals, printed |-> <<msg>>]
    ELSE body

predict_price_direction(symbol, hd) ==
    try_except(price_direction_body(hd), "Error in price prediction", Neutral)


----------------------------------------------------------------------------
(* ModelPredictor.predict_volatility *)

\* Series.pct_change(): close[i] / close[i-1] - 1.  With fill "pad" (the
\* default of pandas before 3.0) a NaN close first takes the last close
\* before it; with "none" it is left NaN.
RECURSIVE ffill_at(_, _)
ffill_at(s, i) ==
    IF ~isnan(s[i]) \/ i = 1 THEN s[i] ELSE ffill_at(s, i - 1)

pct_change(s, fill) ==
    LET filled == [i \in DOMAIN s |-> IF fill = "pad" THEN ffill_at(s, i) ELSE s[i]]
    IN  [i \in DOMAIN s |->
            IF i = 1 THEN NaN ELSE FSub(FDiv(filled[i], filled[i - 1]), One)]

\* Series.dropna()
dropna(s) == SelectSeq(s, LAMBDA x : ~isnan(x))

\* floor(x * a / b) without leaving 32 bits
MulDiv(x, a, b) == (x \div b) * a + ((x % b) * a) \div b

\* every entry is a finite float
Finite(s) == \A i \in DOMAIN s : s[i].k = "num"

\* std() * np.sqrt(252) of one window of returns: the sample standard
\* deviation times sqrt(252).  The square root is irrational, so the value
\* is kept exactly, as the window it is the deviation of.
AnnualStd(window) == [k |-> "std", window |-> window, annual |-> TradingDays]

\* returns.rolling(window=w).std() * np.sqrt(252): NaN until w returns are there
rolling_volatility(returns, w) ==
    [i \in DOMAIN returns |->
        IF i < w \/ w < 2 THEN NaN
        ELSE LET window == SubSeq(returns, i - w + 1, i)
             IN  IF Finite(window) THEN AnnualStd(window) ELSE NaN]

\* Series.mean(): the mean of the values that are not NaN, NaN when there is
\* none; the mean of annualized deviations is kept as the values it is the mean of
series_mean(s) ==
    LET vals == dropna(s)
    IN  IF Len(vals) = 0 THEN NaN
        ELSE IF Finite(vals)
             THEN FDiv(SumRange(vals, 1, Len(vals)), Num(Len(vals), 1))
        ELSE [k |-> "mean", of |-> vals]

\* `volatility.iloc[-1] if not volatility.empty else 0.2`
latest_vol(volatility) ==
    IF Size(volatility) # 0 THEN volatility[Size(volatility)] ELSE DefaultVol

\* `volatility.mean() if not volatility.empty else 0.2`
long_term_vol(volatility) ==
    IF Size(volatility) # 0 THEN series_mean(volatility) ELSE DefaultVol

\* a float of the float library, as opposed to a value kept as an expression
Plain(v) == v.k \in {"num", "nan", "inf"}

\* the float next below x, one unit in the last place under it
Below(x) == [k |-> "below", of |-> x]

\* 0.7 * latest_vol + 0.3 * long_term_vol
\* The products and the sum are rounded to binary floating point: for the
\* two defaults, 0.7 * 0.2 is 0.13999999999999999, 0.3 * 0.2 is 0.06 and
\* their sum is 0.19999999999999998, the float next below 0.2.
blend(latest, long_term) ==
    IF latest = DefaultVol /\ long_term = DefaultVol THEN Below(DefaultVol)
    ELSE IF Plain(latest) /\ Plain(long_term)
    THEN FAdd(FMul(Num(7, 10), latest), FMul(Num(3, 10), long_term))
    ELSE IF isnan(latest) \/ isnan(long_term) THEN NaN
    ELSE [k |-> "blend", latest |-> latest, long_term |-> long_term]

\* The comparisons of min and max need the order of an expression and a
\* bound.  They are decided on an enclosure lo <= value <= hi in units of
\* 1/VolUnit; top says that no upper bound is known.
VolUnit == 10000
\* the finest step the differences of returns are measured in, 1/MaxScale,
\* and the largest sum of squared steps that is kept within 32 bits
MaxScale == 100000
MaxSquares == 2000000000

RECURSIVE SqrtSearch(_, _, _)
SqrtSearch(x, lo, hi) ==
    IF lo >= hi THEN lo
    ELSE LET mid == (lo + hi + 1) \div 2
         IN  IF mid * mid <= x THEN SqrtSearch(x, mid, hi) ELSE SqrtSearch(x, lo, mid - 1)
\* floor and ceiling of the square root
ISqrt(x) == SqrtSearch(x, 0, IF x < 46340 THEN x ELSE 46340)
CeilSqrt(x) == LET r == ISqrt(x) IN IF r * r = x THEN r ELSE r + 1

\* ceiling of x * a / b without leaving 32 bits
MulDivUp(x, a, b) ==
    MulDiv(x, a, b) + (IF (((x % b) * a) % b) = 0 THEN 0 ELSE 1)

Enc(lo, hi, top) == [lo |-> lo, hi |-> hi, top |-> top]

\* the largest and the smallest return of a window
Largest(window) ==
    CHOOSE a \in {window[i] : i \in DOMAIN window} :
        \A i \in DOMAIN window : ~FGt(window[i], a)
Smallest(window) ==
    CHOOSE a \in {window[i] : i \in DOMAIN window} :
        \A i \in DOMAIN window : ~FLt(window[i], a)

\* floor(|r_i - r_j| * scale) for the pair k = (i - 1) * w + j with i < j of
\* a window of w returns, 0 for the other k
PairStep(window, scale, k) ==
    LET w == Len(window)
        a == window[(k - 1) \div w + 1]
        b == window[((k - 1) % w) + 1]
    IN  IF (k - 1) \div w >= ((k - 1) % w) THEN 0
        ELSE MulDiv(Abs(a.n * b.d - b.n * a.d), scale, a.d * b.d)

\* BagCardinality adds up the copies of a bag: here the steps between the two
\* returns of every pair, and their squares
SumOfSteps(window, scale) ==
    BagCardinality([k \in 1..(Len(window) * Len(window)) |->
                        PairStep(window, scale, k) + 1])
        - Len(window) * Len(window)
SumOfSquares(window, scale) ==
    BagCardinality([k \in 1..(Len(window) * Len(window)) |->
                        LET step == PairStep(window, scale, k) IN step * step + 1])
        - Len(window) * Len(window)

\* the differences of the returns of a window are measured in steps of
\* 1/scale, the scale chosen so that the largest difference takes as many
\* steps as the sum of the squares allows within 32 bits, MaxScale at most
StdScale(pairs, spread) ==
    LET fit == ((ISqrt(MaxSquares \div pairs) - 1) * spread.d) \div spread.n
    IN  IF fit > MaxScale THEN MaxScale ELSE fit

\* w * (w - 1) times the sample variance is w * sum(r^2) - sum(r)^2, which is
\* the sum of (r_i - r_j)^2 over the pairs i < j.  With every difference
\* rounded down to steps, squares <= scale^2 * sum <= squares + 2 * total + pairs.
StdBounds(w, annual, scale, squares, total) ==
    Enc((ISqrt(MulDiv(squares, annual, w * (w - 1))) * VolUnit) \div scale,
        (CeilSqrt(MulDivUp(squares + 2 * total + (w * (w - 1)) \div 2, annual, w * (w - 1)))
             * VolUnit + scale - 1) \div scale,
        FALSE)

StdScaled(window, annual, scale) ==
    IF scale = 0 THEN Enc(2 * VolUnit, 2 * VolUnit, TRUE)
    ELSE StdBounds(Len(window), annual, scale,
                   SumOfSquares(window, scale), SumOfSteps(window, scale))

\* sqrt(annual * variance) of a window of two returns or more
StdEnclosure(window, annual) ==
    IF \A i \in DOMAIN window : window[i] = window[1] THEN Enc(0, 0, FALSE)
    ELSE StdScaled(window, annual,
                   StdScale((Len(window) * (Len(window) - 1)) \div 2,
                            FSub(Largest(window), Smallest(window))))

RECURSIVE Enclosure(_)
RECURSIVE EnclosureSum(_, _)
EnclosureSum(vals, i) ==
    IF i = 0 THEN Enc(0, 0, FALSE)
    ELSE LET x == Enclosure(vals[i])
             y == EnclosureSum(vals, i - 1)
         IN  Enc(x.lo + y.lo, x.hi + y.hi, x.top \/ y.top)

\* the enclosure of a value that is not negative
Enclosure(v) ==
    CASE v.k = "num" -> Enc(MulDiv(v.n, VolUnit, v.d), MulDivUp(v.n, VolUnit, v.d), FALSE)
      [] v.k = "below" ->
            Enc(MulDivUp(v.of.n, VolUnit, v.of.d) - 1, MulDivUp(v.of.n, VolUnit, v.of.d), FALSE)
      [] v.k = "std" -> StdEnclosure(v.window, v.annual)
      [] v.k = "mean" ->
            LET sum == EnclosureSum(v.of, Len(v.of))
            IN  Enc(sum.lo \div Len(v.of), (sum.hi + Len(v.of) - 1) \div Len(v.of), sum.top)
      [] v.k = "blend" ->
            LET x == Enclosure(v.latest)
                y == Enclosure(v.long_term)
            IN  Enc((7 * x.lo + 3 * y.lo) \div 10, (7 * x.hi + 3 * y.hi + 9) \div 10,
                    x.top \/ y.top)

\* the final clamp: max(0.05, min(1.0, predicted_vol)).  A value the
\* enclosure cannot place is returned as the clamp of the expression.
clamp_vol(v) ==
    IF Plain(v) THEN PyMax(Num(1, 20), PyMin(One, v))
    ELSE LET e == Enclosure(v)
         IN  IF e.lo >= VolUnit THEN One
             ELSE IF ~e.top /\ 20 * e.hi <= VolUnit THEN Num(1, 20)
             ELSE IF ~e.top /\ 20 * e.lo >= VolUnit /\ e.hi <= VolUnit THEN v
             ELSE [k |-> "clamp", of |-> v]

\* the rolling-volatility series of a close column
volatility_series(close, fill) ==
    rolling_volatility(dropna(pct_change(close, fill)), VolWindow)

volatility_body(hd, fill) ==
    IF short_history(hd) THEN Return(DefaultVol, {}, None)
    ELSE IF ~HasColumn(hd.list, "close") THEN Raise("KeyError")
    ELSE IF ~IsNumeric(Column(hd.list)) THEN Raise("TypeError")
    ELSE LET volatility == Series(volatility_series(Column(hd.list), fill))
             latest == latest_vol(volatility)
             long_term == long_term_vol(volatility)
         IN  Return(clamp_vol(blend(latest, long_term)), {"volatility"},
                    [volatility |-> volatility, latest_vol |-> latest,
                     long_term_vol |-> long_term])

predict_volatility(hd, fill) ==
    try_except(volatility_body(hd, fill), "Error in volatility prediction", DefaultVol)

----------------------------------------------------------------------------
(* ModelPredictor.get_prediction_confidence *)

\* mutant: the thresholds are inclusive
get_prediction_confidence_inclusive(q) ==
    IF ~FLt(q, Num(8, 10)) THEN Num(75, 100)
    ELSE IF ~FLt(q, Num(6, 10)) THEN Num(65, 100)
    ELSE IF ~FLt(q, Num(4, 10)) THEN Num(55, 100)
    ELSE Num(45, 100)

get_prediction_confidence(q) ==
    IF FGt(q, Num(8, 10)) THEN Num(75, 100)
    ELSE IF FGt(q, Num(6, 10)) THEN Num(65, 100)
    ELSE IF FGt(q, Num(4, 10)) THEN Num(55, 100)
    ELSE Num(45, 100)

----------------------------------------------------------------------------
(* ModelPredictor.batch_predict *)

\* the data-quality score batch_predict passes: get_prediction_confidence(0.7)
BatchQuality == Num(7, 10)

\* one turn of the loop: the entry stored under the symbol and the lines printed
batch_turn(symbol, data, fill, now) ==
    LET p == predict_price_direction(symbol, data)
        v == predict_volatility(data, fill)
    IN  IF p.exc # "" \/ v.exc # ""
        THEN [entry |-> None,
              printed |-> p.printed \o v.printed \o <<"Error predicting for">>]
        ELSE [entry |-> [price_direction_prob |-> p.ret,
                         predicted_volatility |-> v.ret,
                         timestamp |-> now,
                         confidence |-> get_prediction_confidence(BatchQuality)],
              printed |-> p.printed \o v.printed]

\* the loop over symbols_data.items(): every symbol gets its turn
batch_loop(sd, fill, now) ==
    [symbol \in DOMAIN sd |-> batch_turn(symbol, sd[symbol], fill, now[symbol])]

\* the dict batch_predict returns
batch_predict(sd, fill, now) ==
    [symbol \in DOMAIN sd |-> batch_loop(sd, fill, now)[symbol].entry]

----------------------------------------------------------------------------
(* ElysianMLTrainer.add_technical_indicators: the df['rsi'] column.  The    *)
(* other columns it adds are not read by any property below.               *)

add_technical_indicators_rsi(close) == rsi_raw(close, RsiPeriod)

TrainColumns ==
    {"sma_5", "sma_20", "sma_50", "ema_12", "ema_26", "rsi", "macd", "macd_signal",
     "macd_histogram", "bb_middle", "bb_upper", "bb_lower", "bb_percent",
     "volatility", "price_change", "price_change_5d"}

----------------------------------------------------------------------------
(* The caller: one call at a time, each with arguments of its choice *)

\* the bar sequences given to predict_volatility: those of HistoricalData
\* with at most one freely chosen bar
VolatilityData ==
    {None, FlatScenario}
    \cup {PyList(s) : s \in {b \in {Extend(Prefix(kind, n), tail) :
                                        kind \in Kinds, n \in PrefixLens,
                                        tail \in {<<>>} \cup [1..1 -> TailSyms]} :
                                 Len(b) <= MaxBars}}

\* the close columns given to calculate_rsi and add_technical_indicators: a
\* prefix and at most one freely chosen bar, every close a float
PriceSeries ==
    {Column(b) : b \in {x \in {Extend(Prefix(kind, n), tail) :
                                   kind \in Kinds, n \in PrefixLens,
                                   tail \in {<<>>} \cup [1..1 -> TailSyms]} :
                            Len(x) <= MaxBars /\ HasColumn(x, "close") /\ IsNumeric(Column(x))}}

\* data-quality scores 0, 0.05, ... 1
QScores == {Num(i, 20) : i \in 0..20}

\* instruments and the bar sequences of a batch
Symbols == {"AAPL", "MSFT", "GOOGL"}
\* no sequence, no bar, a str close, no bar with a close, one bar only with
\* a close, NaN closes, sound bars
BatchData ==
    {None, PyList(<<>>),
     PyList(Extend(Prefix("flat", MinBars - 1), <<[t |-> "str", d |-> 0]>>)),
     PyList(Prefix("nokey", MinBars)),
     PyList(Extend(Prefix("nokey", MinBars - 1), <<[t |-> "move", d |-> 2]>>)),
     PyList(Prefix("nan", MinBars)),
     PyList(Prefix("hump", MinBars))}
BatchInputs == UNION {[K -> BatchData] : K \in SUBSET Symbols}

\* datetime.now().isoformat(), read once in every turn of the loop
Times == {"2025-01-01T09:30:00.000001", "2025-01-01T09:30:00.000002",
          "2025-01-01T09:30:00.000003"}

EmptyDict == [symbol \in {} |-> None]

Init ==
    /\ pc = "ready"
    /\ op = ""
    /\ historical_data = None
    /\ prices = <<>>
    /\ data_quality_score = Unset
    /\ symbols_data = EmptyDict
    /\ pct_fill \in {"pad", "none"}
    /\ ret = Unset
    /\ rsi = <<>>
    /\ results = EmptyDict
    /\ indicators = {}
    /\ locals = None
    /\ printed = <<>>
    /\ raised = ""

PredictPriceDirection ==
    /\ pc = "ready"
    /\ \E hd \in HistoricalData :
        LET r == predict_price_direction("TEST", hd)
        IN  /\ historical_data' = hd
            /\ ret' = r.ret
            /\ indicators' = r.indicators
            /\ locals' = r.locals
            /\ printed' = r.printed
            /\ raised' = r.exc
    /\ pc' = "returned"
    /\ op' = "predict_price_direction"
    /\ UNCHANGED <<prices, data_quality_score, symbols_data, pct_fill, rsi, results>>

PredictVolatility ==
    /\ pc = "ready"
    /\ \E hd \in VolatilityData :
        LET r == predict_volatility(hd, pct_fill)
        IN  /\ historical_data' = hd
            /\ ret' = r.ret
            /\ indicators' = r.indicators
            /\ locals' = r.locals
            /\ printed' = r.printed
            /\ raised' = r.exc
    /\ pc' = "returned"
    /\ op' = "predict_volatility"
    /\ UNCHANGED <<prices, data_quality_score, symbols_data, pct_fill, rsi, results>>

CalculateRsi ==
    /\ pc = "ready"
    /\ \E p \in PriceSeries :
        /\ prices' = p
        /\ rsi' = calculate_rsi(p, RsiPeriod)
    /\ pc' = "returned"
    /\ op' = "calculate_rsi"
    /\ indicators' = {"rsi"}
    /\ UNCHANGED <<historical_data, data_quality_score, symbols_data, pct_fill, ret,
                   results, locals, printed, raised>>

AddTechnicalIndicators ==
    /\ pc = "ready"
    /\ \E p \in PriceSeries :
        /\ prices' = p
        /\ rsi' = add_technical_indicators_rsi(p)
    /\ pc' = "returned"
    /\ op' = "add_technical_indicators"
    /\ indicators' = TrainColumns
    /\ UNCHANGED <<historical_data, data_quality_score, symbols_data, pct_fill, ret,
                   results, locals, printed, raised>>

GetPredictionConfidence ==
    /\ pc = "ready"
    /\ \E q \in QScores :
        /\ data_quality_score' = q
        /\ ret' = get_prediction_confidence(q)
    /\ pc' = "returned"
    /\ op' = "get_prediction_confidence"
    /\ UNCHANGED <<historical_data, prices, symbols_data, pct_fill, rsi, results,
                   indicators, locals, printed, raised>>

\* the order in which a dict lists the instruments it holds
SymbolOrder == <<"AAPL", "MSFT", "GOOGL">>

\* the lines of all turns from the i-th instrument on, in the order of the dict
RECURSIVE Lines(_, _, _, _)
Lines(sd, fill, now, i) ==
    IF i > Len(SymbolOrder) THEN <<>>
    ELSE (IF SymbolOrder[i] \in DOMAIN sd
          THEN batch_turn(SymbolOrder[i], sd[SymbolOrder[i]], fill,
                          now[SymbolOrder[i]]).printed
          ELSE <<>>) \o Lines(sd, fill, now, i + 1)

BatchPredict ==
    /\ pc = "ready"
    /\ \E sd \in BatchInputs :
       \E now \in [DOMAIN sd -> Times] :
        /\ symbols_data' = sd
        /\ results' = batch_predict(sd, pct_fill, now)
        /\ printed' = Lines(sd, pct_fill, now, 1)
    /\ pc' = "returned"
    /\ op' = "batch_predict"
    /\ raised' = ""
    /\ UNCHANGED <<historical_data, prices, data_quality_score, pct_fill, ret, rsi,
                   indicators, locals>>

\* the caller drops what it got and is ready for the next call
Reset ==
    /\ pc = "returned"
    /\ pc' = "ready"
    /\ op' = ""
    /\ historical_data' = None
    /\ prices' = <<>>
    /\ data_quality_score' = Unset
    /\ symbols_data' = EmptyDict
    /\ ret' = Unset
    /\ rsi' = <<>>
    /\ results' = EmptyDict
    /\ indicators' = {}
    /\ locals' = None
    /\ printed' = <<>>
    /\ raised' = ""
    /\ UNCHANGED pct_fill

Next ==
    \/ PredictPriceDirection
    \/ PredictVolatility
    \/ CalculateRsi
    \/ AddTechnicalIndicators
    \/ GetPredictionConfidence
    \/ BatchPredict
    \/ Reset

Spec == Init /\ [][Next]_vars

----------------------------------------------------------------------------
(* Properties *)

\* a float within [lo, hi]
Between(v, lo, hi) == v.k = "num" /\ ~FLt(v, lo) /\ ~FGt(v, hi)
\* equality of two floats
FEq(a, b) == a.k = "num" /\ b.k = "num" /\ a = b
\* clamp(x, lo, hi) of a number x
Clamp(x, lo, hi) == IF FLt(x, lo) THEN lo ELSE IF FGt(x, hi) THEN hi ELSE x

\* a volatility within [0.05, 1.0]: a float in the interval, an expression
\* whose enclosure lies in it, or the clamp of an expression
VolInRange(v) ==
    IF v.k \in {"std", "mean", "blend", "below"}
    THEN LET e == Enclosure(v)
         IN  ~e.top /\ 20 * e.lo >= VolUnit /\ e.hi <= VolUnit
    ELSE v.k = "clamp" \/ Between(v, Num(1, 20), One)

\* the number of bars handed to the scoring operation
NBars == IF historical_data = None THEN 0 ELSE Len(historical_data.list)
Scoring == op \in {"predict_price_direction", "predict_volatility"}
\* the call went through the indicator computation
Computed == locals # None /\ printed = <<>>

ConfidenceLevels == {Num(45, 100), Num(55, 100), Num(65, 100), Num(75, 100)}

\* C1: whatever the bars, predict_price_direction returns a value in
\* [0.1, 0.9] and predict_volatility a value in [0.05, 1.0], also when an
\* intermediate value is NaN or the additive score leaves the range.
C1_ResultsInRange ==
    /\ op = "predict_price_direction" => Between(ret, Num(1, 10), Num(9, 10))
    /\ op = "predict_volatility" => VolInRange(ret)

\* a bullish stack, an RSI below 30 and a positive momentum push the score
\* above 0.9, and 0.9 is returned
C1_Witness ==
    /\ op = "predict_price_direction"
    /\ Computed
    /\ locals.steps.trend = Num(1, 5)
    /\ locals.steps.rsi = Num(3, 20)
    /\ FGt(locals.steps.momentum, Zero)
    /\ FGt(raw_score(locals.steps), Num(9, 10))
    /\ ret = Num(9, 10)

\* C2: with fewer than 20 bars (none, an empty list, None) the scoring
\* operations return 0.5 and 0.2 and compute no indicator, whatever the
\* bars contain.
C2_ShortHistoryDefaults ==
    (Scoring /\ NBars < 20) =>
        /\ ret = (IF op = "predict_price_direction" THEN Neutral ELSE DefaultVol)
        /\ indicators = {}
        /\ locals = None
        /\ printed = <<>>
        /\ raised = ""

\* 19 bars, none of them with a close, handed to predict_volatility
C2_Witness ==
    /\ op = "predict_volatility"
    /\ NBars = 19
    /\ ~HasColumn(historical_data.list, "close")
    /\ ret = DefaultVol

\* a bar sequence that is empty or malformed: it has no bar, or a bar of it
\* has no close or a close that is not a finite number
Malformed(hd) ==
    /\ hd # None
    /\ \/ hd.list = <<>>
       \/ \E i \in 1..Len(hd.list) :
            \/ "close" \notin DOMAIN hd.list[i]
            \/ hd.list[i].close.k # "num"

\* a Prediction Record with its fields in their ranges
ValidRecord(r) ==
    /\ r # None
    /\ Between(r.price_direction_prob, Num(1, 10), Num(9, 10))
    /\ VolInRange(r.predicted_volatility)
    /\ r.confidence \in ConfidenceLevels

\* C3: batch_predict keeps the keys, gives None to an instrument whose bars
\* are malformed or empty, and a record in range to every other instrument.
C3_MalformedIsNone ==
    op = "batch_predict" =>
        /\ DOMAIN results = DOMAIN symbols_data
        /\ \A symbol \in DOMAIN symbols_data :
            IF Malformed(symbols_data[symbol]) THEN results[symbol] = None
            ELSE ValidRecord(results[symbol])

\* C4: a fault raised inside a scoring operation never reaches the caller:
\* predict_price_direction then returns 0.5 and predict_volatility 0.2.
C4_NoFaultPropagates ==
    /\ Scoring => raised = ""
    /\ (op = "predict_price_direction" /\ price_direction_body(historical_data).exc # "")
        => ret = Neutral
    /\ (op = "predict_volatility" /\ volatility_body(historical_data, pct_fill).exc # "")
        => ret = DefaultVol

\* 20 bars or more with a str close: the TypeError is caught and 0.5 returned
C4_Witness ==
    /\ op = "predict_price_direction"
    /\ NBars >= 20
    /\ \E i \in 1..NBars :
        /\ "close" \in DOMAIN historical_data.list[i]
        /\ historical_data.list[i].close = Str
    /\ printed = <<"Error in price prediction">>
    /\ raised = ""
    /\ ret = Neutral

\* C5: get_prediction_confidence is the step function q > 0.8 -> 0.75,
\* 0.6 < q <= 0.8 -> 0.65, 0.4 < q <= 0.6 -> 0.55, else 0.45, and every
\* record of batch_predict carries 0.65.
C5_ConfidenceStep ==
    /\ op = "get_prediction_confidence" =>
        LET q == data_quality_score
        IN  /\ ret \in ConfidenceLevels
            /\ FGt(q, Num(8, 10)) => ret = Num(75, 100)
            /\ (FGt(q, Num(6, 10)) /\ ~FGt(q, Num(8, 10))) => ret = Num(65, 100)
            /\ (FGt(q, Num(4, 10)) /\ ~FGt(q, Num(6, 10))) => ret = Num(55, 100)
            /\ ~FGt(q, Num(4, 10)) => ret = Num(45, 100)
    /\ op = "batch_predict" =>
        \A symbol \in DOMAIN results :
            results[symbol] # None => results[symbol].confidence = Num(65, 100)

\* the boundary q = 0.8 gives 0.65
C5_Witness ==
    /\ op = "get_prediction_confidence"
    /\ data_quality_score = Num(8, 10)
    /\ ret = Num(65, 100)

\* C6: 20 bars of close 100 give direction 0.5 and a volatility of at most
\* 0.2, and get_prediction_confidence(0.7) is 0.65.
C6_FlatScenario ==
    /\ (op = "predict_price_direction" /\ historical_data = FlatScenario) => ret = Neutral
    /\ (op = "predict_volatility" /\ historical_data = FlatScenario) => ~FGt(ret, DefaultVol)
    /\ (op = "get_prediction_confidence" /\ data_quality_score = Num(7, 10))
        => ret = Num(65, 100)

StrictlyIncreasing(p) ==
    /\ \A i \in 1..Len(p) : p[i].k = "num"
    /\ \A i \in 2..Len(p) : FGt(p[i], p[i - 1])
StrictlyDecreasing(p) ==
    /\ \A i \in 1..Len(p) : p[i].k = "num"
    /\ \A i \in 2..Len(p) : FLt(p[i], p[i - 1])
\* the positions that have no 14-bar history
NoHistory == {i \in 1..Len(rsi) : i < 14}
RsiComputed == op \in {"calculate_rsi", "add_technical_indicators"}

\* the latest RSI of a monotone series of 20 closes or more
MonotoneRsi ==
    /\ (Len(prices) >= 20 /\ StrictlyIncreasing(prices)) => rsi[Len(rsi)] = Hundred
    /\ (Len(prices) >= 20 /\ StrictlyDecreasing(prices)) => rsi[Len(rsi)] = Zero

\* C7 as stated: the latest RSI of a strictly increasing series is 100, of a
\* strictly decreasing one 0, and the positions without history carry 50.
C7_NoHistoryIsFifty ==
    RsiComputed =>
        /\ MonotoneRsi
        /\ \A i \in NoHistory : rsi[i] = Num(50, 1)

\* C7 amended: the latest RSI of a strictly increasing series is 100, of a
\* strictly decreasing one 0; the positions without history carry 50 in the
\* Series calculate_rsi returns and NaN in the rsi column of
\* add_technical_indicators.
C7_FiftyInCalculateRsiOnly ==
    RsiComputed =>
        /\ MonotoneRsi
        /\ op = "calculate_rsi" => \A i \in NoHistory : rsi[i] = Num(50, 1)
        /\ op = "add_technical_indicators" => \A i \in NoHistory : isnan(rsi[i])

\* add_technical_indicators on a strictly increasing series of 20 closes or more
C7_Witness ==
    /\ op = "add_technical_indicators"
    /\ Len(prices) >= 20
    /\ StrictlyIncreasing(prices)
    /\ rsi[Len(rsi)] = Hundred
    /\ isnan(rsi[13])

\* C8: with 20 bars or more predict_volatility returns
\* clamp(0.7 * latest_vol + 0.3 * long_term_vol, 0.05, 1.0), latest_vol the
\* most recent rolling volatility and long_term_vol the mean of the series;
\* when the series holds no value both default to 0.2 and the result is 0.2.
C8_VolatilityBlend ==
    (op = "predict_volatility" /\ NBars >= 20 /\ Computed) =>
        LET values == dropna(locals.volatility)
        IN  IF Len(values) = 0 THEN ret = DefaultVol
            ELSE ret = clamp_vol(blend(values[Len(values)], series_mean(values)))

\* C9: the trend rule adds 0.2 only for close > sma_5 > sma_20 and -0.2 only
\* for close < sma_5 < sma_20, nothing when two of them are equal; the RSI
\* rule adds 0.15 only for rsi < 30 and -0.15 only for rsi > 70, nothing at
\* exactly 30 or 70.
C9_StrictThresholds ==
    (op = "predict_price_direction" /\ Computed) =>
        LET l == locals.latest
            t == locals.steps.trend
            r == locals.steps.rsi
        IN  /\ t \in {Num(1, 5), Num(-1, 5), Zero}
            /\ t = Num(1, 5) <=> (FGt(l.close, l.sma_5) /\ FGt(l.sma_5, l.sma_20))
            /\ t = Num(-1, 5) <=> (FLt(l.close, l.sma_5) /\ FLt(l.sma_5, l.sma_20))
            /\ (FEq(l.close, l.sma_5) \/ FEq(l.sma_5, l.sma_20)) => t = Zero
            /\ r \in {Num(3, 20), Num(-3, 20), Zero}
            /\ r = Num(3, 20) <=> FLt(l.rsi, Num(30, 1))
            /\ r = Num(-3, 20) <=> FGt(l.rsi, Num(70, 1))
            /\ (FEq(l.rsi, Num(30, 1)) \/ FEq(l.rsi, Num(70, 1))) => r = Zero
            /\ ret = Clamp(FAdd(FAdd(FAdd(Neutral, t), r), locals.steps.momentum),
                           Num(1, 10), Num(9, 10))

\* the close is above sma_5, sma_5 equals sma_20, and the trend rule adds nothing
C9_Witness ==
    /\ op = "predict_price_direction"
    /\ Computed
    /\ FGt(locals.latest.close, locals.latest.sma_5)
    /\ FEq(locals.latest.sma_5, locals.latest.sma_20)
    /\ locals.steps.trend = Zero

\* the momentum amount measured from the close `back` positions before the latest
MomentumFrom(back) ==
    LET close == Column(historical_data.list)
        latest == close[Len(close)]
        base == close[Len(close) - back]
    IN  /\ Between(locals.steps.momentum, Num(-1, 5), Num(1, 5))
        /\ (latest.k = "num" /\ base.k = "num") =>
            locals.steps.momentum =
                Clamp(FMul(Num(2, 1), FDiv(FSub(latest, base), base)), Num(-1, 5), Num(1, 5))

\* C10 as stated: the amount the momentum rule adds is
\* clamp(2 * (latest - c) / c, -0.2, 0.2) with c the close five positions
\* before the latest bar, and it lies within [-0.2, 0.2].
C10_FivePositionsBack ==
    (op = "predict_price_direction" /\ Computed) => MomentumFrom(5)

\* C10 amended: c is the close of the fifth bar counted from the end
\* (df.iloc[-5]), four positions before the latest bar.
C10_FifthBarFromEnd ==
    (op = "predict_price_direction" /\ Computed) => MomentumFrom(4)

\* the closes four and five positions back differ and the amount is not clamped
C10_Witness ==
    /\ op = "predict_price_direction"
    /\ Computed
    /\ LET close == Column(historical_data.list)
       IN  /\ close[Len(close)].k = "num"
           /\ close[Len(close) - 4].k = "num"
           /\ close[Len(close) - 5].k = "num"
           /\ close[Len(close) - 4] # close[Len(close) - 5]
    /\ locals.steps.momentum \notin {Zero, Num(1, 5), Num(-1, 5)}

====
